---- MODULE Spec2Model ----
(***************************************************************************)
(* A model of the ZKP server of src/src/server.ts: the field encoder       *)
(* (stringToFieldElement), the hash wrapper (hashWithPoseidon), the proof  *)
(* orchestrator (generateProof) and the four POST handlers.                *)
(*                                                                         *)
(* JavaScript strings are sequences of UTF-16 code units, byte arrays are  *)
(* sequences of 0..255, and a BigInt is the little-endian sequence of its  *)
(* base-256 digits without leading (trailing in the sequence) zeros, so    *)
(* that no value of the program is cut to the 32-bit integers of TLC.      *)
(***************************************************************************)
EXTENDS Integers, Sequences, FiniteSets, TLC

(***************************************************************************)
(* Program constants and bounds                                            *)
(***************************************************************************)
\* server.ts:65  Math.min(bytes.length, 31)
MaxBytes == 31

\* longest free tail of an encoder input (after the padding)
MaxTail == 2

\* requests the service handles, concurrently, in one behaviour
MaxReq == 2

\* Math.random() * 1000000, floored, is drawn from 0 .. MaxRandom
MaxRandom == 1

VARIABLES
  req,      \* req[id]: one HTTP request, its handler's locals and its response
  encIn,    \* encoder harness: the input string s
  encSuf,   \* encoder harness: the suffix t
  encOut,   \* encoder harness: <<stringToFieldElement(s)>> once called
  encCat,   \* encoder harness: <<stringToFieldElement(s + t)>> once called
  encRep    \* encoder harness: the result of a repeated call on s

vars == <<req, encIn, encSuf, encOut, encCat, encRep>>
encVars == <<encIn, encSuf, encOut, encCat, encRep>>

(***************************************************************************)
(* BigInt arithmetic on little-endian base-256 digit sequences             *)
(***************************************************************************)
\* the digit of a at position i (1-based), 0 beyond its length
Digit(a, i) == IF i <= Len(a) THEN a[i] ELSE 0

Max(a, b) == IF a > b THEN a ELSE b

\* a without its most significant zero digits
Norm(a) ==
  LET nz == {i \in 1..Len(a) : a[i] # 0}
  IN  IF nz = {} THEN <<>>
      ELSE SubSeq(a, 1, CHOOSE i \in nz : \A j \in nz : j <= i)

RECURSIVE AddRange(_, _, _, _, _)
\* the digits lo..hi of a + b with carry c into digit lo, and the carry out:
\* the low half first, its carry into the high half
AddRange(a, b, lo, hi, c) ==
  IF lo > hi THEN <<<<>>, c>>
  ELSE IF lo = hi THEN
    LET s == Digit(a, lo) + Digit(b, lo) + c IN <<<<s % 256>>, s \div 256>>
  ELSE LET mid == (lo + hi) \div 2
           L == AddRange(a, b, lo, mid, c)
           H == AddRange(a, b, mid + 1, hi, L[2])
       IN  <<L[1] \o H[1], H[2]>>

\* a + b
BigAdd(a, b) ==
  LET r == AddRange(a, b, 1, Max(Len(a), Len(b)), 0)
  IN  Norm(r[1] \o <<r[2]>>)

RECURSIVE MulRange(_, _, _, _, _)
\* the digits lo..hi of a * k (0 <= k < 256) with carry c, and the carry out
MulRange(a, k, lo, hi, c) ==
  IF lo > hi THEN <<<<>>, c>>
  ELSE IF lo = hi THEN
    LET s == a[lo] * k + c IN <<<<s % 256>>, s \div 256>>
  ELSE LET mid == (lo + hi) \div 2
           L == MulRange(a, k, lo, mid, c)
           H == MulRange(a, k, mid + 1, hi, L[2])
       IN  <<L[1] \o H[1], H[2]>>

\* a * k for one digit k
BigMulSmall(a, k) ==
  LET r == MulRange(a, k, 1, Len(a), 0)
  IN  Norm(r[1] \o <<r[2]>>)

Zeros(n) == [i \in 1..n |-> 0]

\* BigInt(256) ** BigInt(i)
BigPow256(i) == Zeros(i) \o <<1>>

RECURSIVE PartialProducts(_, _, _, _)
\* the sum of a * b[j] * 256^(j-1) for j in lo..hi
PartialProducts(a, b, lo, hi) ==
  IF lo > hi THEN <<>>
  ELSE IF lo = hi THEN
    (IF b[lo] = 0 THEN <<>> ELSE Norm(Zeros(lo - 1) \o BigMulSmall(a, b[lo])))
  ELSE LET mid == (lo + hi) \div 2
       IN  BigAdd(PartialProducts(a, b, lo, mid), PartialProducts(a, b, mid + 1, hi))

\* a * b
BigMul(a, b) == PartialProducts(a, b, 1, Len(b))

RECURSIVE BigFromNat(_)
\* BigInt(n) for a small non-negative integer n
BigFromNat(n) == IF n = 0 THEN <<>> ELSE <<n % 256>> \o BigFromNat(n \div 256)

RECURSIVE DivRange(_, _, _, _, _)
\* long division by k of the digits hi down to lo of a, r the remainder so
\* far: the quotient's digits lo..hi and the remainder; the high half first
DivRange(a, k, lo, hi, r) ==
  IF lo > hi THEN <<<<>>, r>>
  ELSE IF lo = hi THEN
    LET cur == r * 256 + a[lo] IN <<<<cur \div k>>, cur % k>>
  ELSE LET mid == (lo + hi) \div 2
           H == DivRange(a, k, mid + 1, hi, r)
           L == DivRange(a, k, lo, mid, H[2])
       IN  IF H[2] >= 0 THEN <<L[1] \o H[1], L[2]>> ELSE <<>>   \* H is evaluated first

\* four decimal digits of n < 10000, as code units
FourDigits(n) ==
  <<48 + (n \div 1000), 48 + ((n \div 100) % 10), 48 + ((n \div 10) % 10), 48 + (n % 10)>>

RECURSIVE NatDigits(_)
\* the decimal digits of n > 0 as code units
NatDigits(n) == IF n = 0 THEN <<>> ELSE NatDigits(n \div 10) \o <<48 + (n % 10)>>

RECURSIVE DecDigits(_)
\* the decimal digits of a > 0, most significant first, as code units, four
\* at a time from the least significant end
DecDigits(a) ==
  LET qr == DivRange(a, 10000, 1, Len(a), 0)
      q == Norm(qr[1])
  IN  IF q = <<>> THEN NatDigits(qr[2])
      ELSE LET front == DecDigits(q)
           IN  front \o FourDigits(qr[2])

\* BigInt.prototype.toString(): the decimal string
BigToString(a) == IF a = <<>> THEN <<48>> ELSE DecDigits(a)

IsDigit(c) == c >= 48 /\ c <= 57

IsDecimal(s) == \A i \in 1..Len(s) : IsDigit(s[i])

RECURSIVE BigPow10(_)
\* 10 ** k
BigPow10(k) ==
  IF k = 0 THEN <<1>>
  ELSE IF k % 2 = 0 THEN LET h == BigPow10(k \div 2) IN BigMul(h, h)
  ELSE BigMulSmall(BigPow10(k - 1), 10)

RECURSIVE ParseDec(_)
\* the value of a decimal digit string, by halves:
\* value(left) * 10 ** Len(right) + value(right)
ParseDec(s) ==
  IF s = <<>> THEN <<>>
  ELSE IF Len(s) = 1 THEN BigFromNat(s[1] - 48)
  ELSE LET h == Len(s) \div 2
           left == SubSeq(s, 1, h)
           right == SubSeq(s, h + 1, Len(s))
           hi == ParseDec(left)
           lo == ParseDec(right)
       IN  IF Len(hi) >= 0 /\ Len(lo) >= 0     \* both halves are evaluated first
           THEN BigAdd(BigMul(hi, BigPow10(Len(right))), lo)
           ELSE <<>>

\* BigInt(string) succeeds: the empty string and decimal digit strings (the
\* inputs of the model hold no sign, radix prefix or white space)
StringIsBigInt(s) == IsDecimal(s)

\* BigInt(string) for a string it accepts
StringToBigInt(s) == ParseDec(s)

(***************************************************************************)
(* TextEncoder.encode: UTF-16 code units to UTF-8 bytes                    *)
(***************************************************************************)
IsHigh(c) == c >= 55296 /\ c <= 56319
IsLow(c) == c >= 56320 /\ c <= 57343

\* the UTF-8 bytes of one scalar value
EncodeCodePoint(cp) ==
  IF cp < 128 THEN <<cp>>
  ELSE IF cp < 2048 THEN <<192 + (cp \div 64), 128 + (cp % 64)>>
  ELSE IF cp < 65536 THEN
    <<224 + (cp \div 4096), 128 + ((cp \div 64) % 64), 128 + (cp % 64)>>
  ELSE <<240 + (cp \div 262144), 128 + ((cp \div 4096) % 64),
         128 + ((cp \div 64) % 64), 128 + (cp % 64)>>

\* the UTF-8 bytes the code unit u[i] contributes: a high surrogate followed
\* by a low one is one scalar value (the low one then contributes nothing),
\* any other surrogate is replaced by U+FFFD
UnitBytes(u, i) ==
  IF IsHigh(u[i]) /\ i < Len(u) /\ IsLow(u[i + 1]) THEN
    EncodeCodePoint(65536 + (u[i] - 55296) * 1024 + (u[i + 1] - 56320))
  ELSE IF IsLow(u[i]) /\ i > 1 /\ IsHigh(u[i - 1]) THEN <<>>
  ELSE IF IsHigh(u[i]) \/ IsLow(u[i]) THEN <<239, 191, 189>>
  ELSE EncodeCodePoint(u[i])

RECURSIVE EncodeUnits(_, _, _)
\* the bytes of the code units lo..hi, in order
EncodeUnits(u, lo, hi) ==
  IF lo > hi THEN <<>>
  ELSE IF lo = hi THEN UnitBytes(u, lo)
  ELSE LET mid == (lo + hi) \div 2
           front == EncodeUnits(u, lo, mid)
           back == EncodeUnits(u, mid + 1, hi)
       IN  IF Len(front) >= 0 /\ Len(back) >= 0 THEN front \o back ELSE <<>>

\* new TextEncoder().encode(str)
TextEncode(u) == EncodeUnits(u, 1, Len(u))

Min(a, b) == IF a < b THEN a ELSE b

RECURSIVE EncodeTerms(_, _, _)
\* server.ts:66  the sum of BigInt(bytes[i]) * (256n ** BigInt(i)) over the
\* iterations lo <= i < hi of the loop (bytes[i] of the code is bytes[i + 1]
\* here: sequences start at 1); the sum is grouped by halves
EncodeTerms(bytes, lo, hi) ==
  IF lo >= hi THEN <<>>
  ELSE IF lo + 1 = hi THEN BigMul(BigFromNat(bytes[lo + 1]), BigPow256(lo))
  ELSE LET mid == (lo + hi) \div 2
           front == EncodeTerms(bytes, lo, mid)
           back == EncodeTerms(bytes, mid, hi)
       IN  IF Len(front) >= 0 /\ Len(back) >= 0 THEN BigAdd(front, back) ELSE <<>>

\* server.ts:63-67  let result = 0n; for (i = 0; i < limit; i++) result += ...
EncodeLoop(bytes, limit) == EncodeTerms(bytes, 0, limit)

\* a plausible slip: no cap on the number of bytes
StringToFieldElementNoCap(str) ==
  LET bytes == TextEncode(str)
  IN  BigToString(EncodeLoop(bytes, Len(bytes)))

\* server.ts:60-70
stringToFieldElement(str) ==
  LET bytes == TextEncode(str)
  IN  BigToString(EncodeLoop(bytes, Min(Len(bytes), MaxBytes)))

(***************************************************************************)
(* JavaScript values of a JSON request body                                *)
(*   t: the type; s: the code units of a string; n, e: the number n*10^e   *)
(*   (an integer the double holds exactly); a: the elements of an array    *)
(***************************************************************************)
Undef == [t |-> "undefined", s |-> <<>>, n |-> 0, e |-> 0, a |-> <<>>]
Str(s) == [t |-> "string", s |-> s, n |-> 0, e |-> 0, a |-> <<>>]
Num(n, e) == [t |-> "number", s |-> <<>>, n |-> n, e |-> e, a |-> <<>>]
\* array elements are scalars: the same record without the field a
Elem(v) == [t |-> v.t, s |-> v.s, n |-> v.n, e |-> v.e]
Arr(elems) == [t |-> "array", s |-> <<>>, n |-> 0, e |-> 0,
               a |-> [i \in 1..Len(elems) |-> Elem(elems[i])]]

\* !v is false
Truthy(v) ==
  CASE v.t = "undefined" -> FALSE
    [] v.t = "string" -> v.s # <<>>
    [] v.t = "number" -> v.n # 0
    [] OTHER -> TRUE

\* a plausible slip: the check is left out
IsArrayAny(v) == TRUE

\* Array.isArray(v)
IsArray(v) == v.t = "array"

RECURSIVE StripZeros(_)
StripZeros(d) ==
  IF d # <<>> /\ d[Len(d)] = 48 THEN StripZeros(SubSeq(d, 1, Len(d) - 1)) ELSE d

Repeat(c, k) == [i \in 1..k |-> c]

\* Number.prototype.toString() of the integer n * 10^e: plain digits below
\* 10^21, exponent notation ("1e+21") from there on
NumberToString(n, e) ==
  IF n = 0 THEN <<48>>
  ELSE LET d == NatDigits(n)
           k == Len(d) + e
       IN  IF k <= 21 THEN d \o Repeat(48, e)
           ELSE LET m == StripZeros(d)
                IN  <<m[1]>>
                    \o (IF Len(m) > 1 THEN <<46>> \o SubSeq(m, 2, Len(m)) ELSE <<>>)
                    \o <<101, 43>> \o NatDigits(k - 1)

\* String(v) of a scalar
ScalarToString(v) ==
  CASE v.t = "string" -> v.s
    [] v.t = "number" -> NumberToString(v.n, v.e)
    [] OTHER -> <<>>

RECURSIVE Join(_, _)
\* Array.prototype.join(sep)
Join(a, sep) ==
  IF a = <<>> THEN <<>>
  ELSE IF Len(a) = 1 THEN ScalarToString(a[1])
  ELSE ScalarToString(a[1]) \o sep \o Join(Tail(a), sep)

\* value.toString(), and the string a DOMString parameter receives
JsToString(v) ==
  CASE v.t = "array" -> Join(v.a, <<44>>)
    [] v.t = "undefined" -> <<117, 110, 100, 101, 102, 105, 110, 101, 100>>
    [] OTHER -> ScalarToString(v)

\* BigInt(v) throws: undefined (TypeError), or a string that is no integer
\* literal (SyntaxError); the numbers of the model are integers
BigIntThrows(v) ==
  CASE v.t = "undefined" -> TRUE
    [] v.t = "number" -> FALSE
    [] OTHER -> ~StringIsBigInt(JsToString(v))

\* the message of the error BigInt(v) throws
BigIntError(v) == IF v.t = "undefined" THEN "TypeError" ELSE "SyntaxError"

\* BigInt(v) when it does not throw
JsToBigInt(v) ==
  IF v.t = "number" THEN BigMul(BigFromNat(v.n), BigPow10(v.e))
  ELSE StringToBigInt(JsToString(v))

(***************************************************************************)
(* hashWithPoseidon and generateProof                                      *)
(***************************************************************************)
RECURSIVE Absorb(_, _)
\* the state after absorbing the first n digits of one field element
Absorb(x, n) ==
  IF n = 0 THEN Len(x) + 7
  ELSE (Absorb(x, n - 1) * 131 + x[n] + 1) % 65521

RECURSIVE Digest(_, _)
\* the state after absorbing the first n inputs
Digest(inputs, n) ==
  IF n = 0 THEN Len(inputs)
  ELSE (Digest(inputs, n - 1) * 257 + Absorb(inputs[n], Len(inputs[n]))) % 65521

\* poseidon(inputs): the library's hash is opaque; its stand-in is a fixed
\* deterministic function of the ordered list of field elements
Poseidon(inputs) == BigFromNat(Digest(inputs, Len(inputs)))

\* poseidon(inputs) throws: the library accepts 1 to 16 inputs
PoseidonThrows(inputs) == Len(inputs) = 0 \/ Len(inputs) > 16

\* server.ts:44-58  the decimal string of the hash
hashWithPoseidon(inputs) == BigToString(Poseidon(inputs))

\* a plausible slip: the coordinates of b in the prover's order
NormalizeProofNoSwap(raw) ==
  [a |-> <<raw.pi_a[1], raw.pi_a[2]>>,
   b |-> <<<<raw.pi_b[1][1], raw.pi_b[1][2]>>, <<raw.pi_b[2][1], raw.pi_b[2][2]>>>>,
   c |-> <<raw.pi_c[1], raw.pi_c[2]>>]

\* server.ts:89-96  (proof.pi_b[0][1] of the code is raw.pi_b[1][2] here)
NormalizeProof(raw) ==
  [a |-> <<raw.pi_a[1], raw.pi_a[2]>>,
   b |-> <<<<raw.pi_b[1][2], raw.pi_b[1][1]>>, <<raw.pi_b[2][2], raw.pi_b[2][1]>>>>,
   c |-> <<raw.pi_c[1], raw.pi_c[2]>>]

\* a plausible slip: the cause is dropped
ProofErrorNoCause(msg) == <<"Failed to generate ZK proof">>

\* server.ts:99  `Failed to generate ZK proof: ${error.message}`
ProofError(msg) == <<"Failed to generate ZK proof: ", msg>>

(***************************************************************************)
(* Requests, handler locals and responses                                  *)
(***************************************************************************)
Ids == 1..MaxReq

EmptyBody ==
  [inputs |-> Undef, value |-> Undef, username |-> Undef, password |-> Undef,
   username_hash |-> Undef, credential_hash |-> Undef, nonce |-> Undef,
   result_hash |-> Undef, pattern |-> Undef]

\* a response: absent members are empty sequences, present ones <<value>>
BlankResponse(status, kind) ==
  [status |-> status, kind |-> kind, success |-> "absent", error |-> <<>>,
   hash |-> <<>>, fieldElement |-> <<>>, usernameHash |-> <<>>,
   credentialHash |-> <<>>, resultHash |-> <<>>, nonce |-> <<>>,
   proof |-> <<>>, publicSignals |-> <<>>]

\* a request slot before the request arrives
IdleRequest ==
  [ep |-> "none", body |-> EmptyBody, pc |-> "idle",
   usernameField |-> <<>>, passwordField |-> <<>>, usernameHash |-> <<>>,
   credentialHash |-> <<>>, nonceValue |-> <<>>, resultHash |-> <<>>,
   hashArgs |-> <<>>,    \* the inputs of every hashWithPoseidon call, in order
   witness |-> <<>>,     \* the inputs of every groth16.fullProve call, in order
   raw |-> <<>>,         \* what the prover returned
   proverError |-> <<>>, \* the message of the error the prover threw
   resp |-> <<>>]        \* the responses sent, in order

\* server.ts:117, 136, 153-155, 196-198  res.status(400).json({ error })
Respond400(r, msg) ==
  [r EXCEPT !.pc = "done",
            !.resp = @ \o <<[BlankResponse(400, "error") EXCEPT !.error = <<msg>>]>>]

\* a plausible slip: the error is logged and no response is sent
Respond500Lost(r, success, err) == [r EXCEPT !.pc = "done"]

\* server.ts:126, 143, 183-186, 244-247  res.status(500).json({ error: error.message })
Respond500(r, success, err) ==
  [r EXCEPT !.pc = "done",
            !.resp = @ \o <<[BlankResponse(500, "error") EXCEPT
                               !.success = success, !.error = err]>>]

(***************************************************************************)
(* The inputs of the model                                                 *)
(***************************************************************************)
StrU == <<117>>                                      \* "u"
StrAbc == <<97, 98, 99>>                             \* "abc"
StrTestuser == <<116, 101, 115, 116, 117, 115, 101, 114>>   \* "testuser"

HashBodies ==
  {[EmptyBody EXCEPT !.inputs = v] :
     v \in {Undef, Str(StrAbc), Arr(<<>>),
            Arr(<<Str(<<49, 50, 51>>), Str(<<52, 53>>)>>),
            Arr(<<Num(5, 0)>>), Arr(<<Str(StrAbc)>>)}}

FieldBodies ==
  {[EmptyBody EXCEPT !.value = v] : v \in {Undef, Str(<<>>), Str(StrTestuser)}}

ProofBody(u, p, uh, ch, n, rh) ==
  [EmptyBody EXCEPT !.username = u, !.password = p, !.username_hash = uh,
                    !.credential_hash = ch, !.nonce = n, !.result_hash = rh]

ProofBodies ==
  {ProofBody(Str(<<49>>), Str(<<50>>), Str(<<51>>), Str(<<52>>), Str(<<53>>), Str(<<54>>)),
   ProofBody(Str(<<49>>), Str(<<50>>), Str(<<51>>), Str(<<52>>), Str(<<53>>), Undef),
   ProofBody(Str(<<49>>), Str(<<>>), Str(<<51>>), Str(<<52>>), Str(<<53>>), Str(<<54>>)),
   ProofBody(Str(StrAbc), Str(<<50>>), Str(<<51>>), Str(<<52>>), Str(<<53>>), Str(<<54>>))}

AuthBody(u, p, n) ==
  [EmptyBody EXCEPT !.username = u, !.pattern = p, !.nonce = n]

AuthBodies ==
  {AuthBody(Str(StrU), Arr(<<Num(0, 0), Num(1, 0), Num(2, 0)>>), Undef),
   AuthBody(Str(StrU), Arr(<<Num(2, 0), Num(1, 0), Num(0, 0)>>), Num(0, 0)),
   AuthBody(Str(StrU), Arr(<<Num(1, 0), Num(11, 0)>>), Num(7, 0)),
   AuthBody(Str(StrU), Arr(<<Num(11, 0), Num(1, 0)>>), Num(1, 21)),
   AuthBody(Str(StrU), Arr(<<>>), Str(StrAbc)),
   AuthBody(Undef, Arr(<<Num(0, 0), Num(1, 0), Num(2, 0)>>), Undef),
   AuthBody(Str(<<>>), Arr(<<Num(0, 0), Num(1, 0), Num(2, 0)>>), Num(7, 0)),
   AuthBody(Str(StrU), Undef, Undef),
   AuthBody(Str(StrU), Str(<<48, 49, 50>>), Num(7, 0))}

Bodies(ep) ==
  CASE ep = "health" -> {EmptyBody}
    [] ep = "hash" -> HashBodies
    [] ep = "field" -> FieldBodies
    [] ep = "proof" -> ProofBodies
    [] ep = "auth" -> AuthBodies

Endpoints == {"health", "hash", "field", "proof", "auth"}

\* what groth16.fullProve may return
RawProofs ==
  {[pi_a |-> <<"a1", "a2", "1">>,
    pi_b |-> <<<<"b11", "b12">>, <<"b21", "b22">>, <<"1", "0">>>>,
    pi_c |-> <<"c1", "c2", "1">>,
    publicSignals |-> <<"s1", "s2", "s3">>],
   [pi_a |-> <<"p", "q", "1">>,
    pi_b |-> <<<<"r", "s">>, <<"t", "u">>, <<"1", "0">>>>,
    pi_c |-> <<"v", "w", "1">>,
    publicSignals |-> <<"x">>]}

\* the messages of the errors the prover and the hash library may raise
ProverErrors == {"witness rejected", "circuit.wasm not found"}
HashErrors == {"poseidon unavailable"}

(***************************************************************************)
(* The handlers.  A handler runs from one await to the next in one step.   *)
(***************************************************************************)
\* express routes a parsed request to its handler
Receive(id) ==
  /\ req[id].pc = "idle"
  /\ \E ep \in Endpoints : \E body \in Bodies(ep) :
       req' = [req EXCEPT ![id] = [IdleRequest EXCEPT
                                     !.ep = ep, !.body = body, !.pc = "received"]]
  /\ UNCHANGED encVars

\* server.ts:107-109
Health(id) ==
  /\ req[id].pc = "received" /\ req[id].ep = "health"
  /\ req' = [req EXCEPT ![id].pc = "done",
                        ![id].resp = @ \o <<BlankResponse(200, "health")>>]
  /\ UNCHANGED encVars

\* the call of hashWithPoseidon(inputs): the handler awaits its promise
CallHash(r, inputs, pc) == [r EXCEPT !.hashArgs = @ \o <<inputs>>, !.pc = pc]

\* the inputs of the hash call a handler is waiting for
PendingHash(r) == r.hashArgs[Len(r.hashArgs)]

\* server.ts:112-122  up to the await of line 121
HashRequest(id) ==
  LET r == req[id]
      inputs == r.body.inputs
  IN  /\ r.pc = "received" /\ r.ep = "hash"
      /\ req' = [req EXCEPT ![id] =
           IF ~Truthy(inputs) \/ ~IsArray(inputs)
           THEN Respond400(r, "Invalid inputs. Expected array of values.")
           ELSE IF \E i \in 1..Len(inputs.a) : BigIntThrows(inputs.a[i])
           THEN LET i == CHOOSE k \in 1..Len(inputs.a) :
                           /\ BigIntThrows(inputs.a[k])
                           /\ \A m \in 1..(k - 1) : ~BigIntThrows(inputs.a[m])
                IN  Respond500(r, "absent", <<BigIntError(inputs.a[i])>>)
           ELSE CallHash(r, [i \in 1..Len(inputs.a) |-> JsToBigInt(inputs.a[i])],
                         "awaitHash")]
      /\ UNCHANGED encVars

\* server.ts:121-123  the hash resolves
HashResponse(id) ==
  LET r == req[id]
  IN  /\ r.pc = "awaitHash" /\ ~PoseidonThrows(PendingHash(r))
      /\ req' = [req EXCEPT ![id].pc = "done",
                            ![id].resp = @ \o <<[BlankResponse(200, "hash") EXCEPT
                               !.hash = <<hashWithPoseidon(PendingHash(r))>>]>>]
      /\ UNCHANGED encVars

\* server.ts:124-127  buildPoseidon or poseidon throws
HashFailure(id) ==
  LET r == req[id]
  IN  /\ r.pc = "awaitHash"
      /\ \E msg \in HashErrors :
           req' = [req EXCEPT ![id] = Respond500(r, "absent", <<msg>>)]
      /\ UNCHANGED encVars

\* server.ts:131-145
StringToField(id) ==
  LET r == req[id]
      value == r.body.value
  IN  /\ r.pc = "received" /\ r.ep = "field"
      /\ req' = [req EXCEPT ![id] =
           IF ~Truthy(value) THEN Respond400(r, "Value is required")
           ELSE [r EXCEPT !.pc = "done",
                          !.resp = @ \o <<[BlankResponse(200, "field") EXCEPT
                             !.fieldElement =
                               <<stringToFieldElement(JsToString(value))>>]>>]]
      /\ UNCHANGED encVars

\* server.ts:72-84  generateProof calls groth16.fullProve(inputs, wasm, zkey)
CallProver(r, inputs) == [r EXCEPT !.witness = @ \o <<inputs>>, !.pc = "awaitProver"]

Witness(u, p, uh, ch, n, rh) ==
  [username |-> u, password |-> p, username_hash |-> uh, credential_hash |-> ch,
   nonce |-> n, result_hash |-> rh]

\* server.ts:148-174  up to the await of line 167
ProofRequest(id) ==
  LET r == req[id]
      b == r.body
  IN  /\ r.pc = "received" /\ r.ep = "proof"
      /\ req' = [req EXCEPT ![id] =
           IF \/ ~Truthy(b.username) \/ ~Truthy(b.password)
              \/ ~Truthy(b.username_hash) \/ ~Truthy(b.credential_hash)
              \/ ~Truthy(b.nonce) \/ ~Truthy(b.result_hash)
           THEN Respond400(r, "Missing required fields: username, password, username_hash, credential_hash, nonce, result_hash")
           ELSE CallProver(r, Witness(b.username, b.password, b.username_hash,
                                      b.credential_hash, b.nonce, b.result_hash))]
      /\ UNCHANGED encVars

\* server.ts:80-96, 176-180  the prover returns
ProofResponse(id) ==
  LET r == req[id]
  IN  /\ r.pc = "awaitProver" /\ r.ep = "proof"
      /\ \E raw \in RawProofs :
           req' = [req EXCEPT ![id].pc = "done", ![id].raw = <<raw>>,
                              ![id].resp = @ \o <<[BlankResponse(200, "proof") EXCEPT
                                 !.success = "true",
                                 !.proof = <<NormalizeProof(raw)>>,
                                 !.publicSignals = <<raw.publicSignals>>]>>]
      /\ UNCHANGED encVars

\* server.ts:97-100, 181-187  the prover throws
ProofFailure(id) ==
  LET r == req[id]
  IN  /\ r.pc = "awaitProver" /\ r.ep = "proof"
      /\ \E msg \in ProverErrors :
           req' = [req EXCEPT ![id] =
             Respond500([r EXCEPT !.proverError = <<msg>>], "false", ProofError(msg))]
      /\ UNCHANGED encVars

\* a plausible slip: the body of whichever request arrived first
RequestBodyShared(rs, id) == rs[1].body

\* server.ts:193  const { username, pattern, nonce } = req.body
RequestBody(rs, id) == rs[id].body

\* server.ts:191-208  up to the await of line 208
AuthRequest(id) ==
  LET r == req[id]
      b == RequestBody(req, id)
  IN  /\ r.pc = "received" /\ r.ep = "auth"
      /\ req' = [req EXCEPT ![id] =
           IF ~Truthy(b.username) \/ ~Truthy(b.pattern) \/ ~IsArray(b.pattern)
           THEN Respond400(r, "Missing required fields: username (string), pattern (array)")
           ELSE LET usernameField == stringToFieldElement(JsToString(b.username))
                    passwordField == stringToFieldElement(Join(b.pattern.a, <<>>))
                IN  IF ~StringIsBigInt(usernameField)
                    THEN Respond500(r, "false", <<"SyntaxError">>)
                    ELSE CallHash([r EXCEPT !.usernameField = <<usernameField>>,
                                            !.passwordField = <<passwordField>>],
                                  <<StringToBigInt(usernameField)>>,
                                  "awaitUsernameHash")]
      /\ UNCHANGED encVars

\* server.ts:208-212  usernameHash resolves; up to the await of line 209
AuthUsernameHash(id) ==
  LET r == req[id]
  IN  /\ r.pc = "awaitUsernameHash" /\ ~PoseidonThrows(PendingHash(r))
      /\ req' = [req EXCEPT ![id] =
           IF ~StringIsBigInt(r.usernameField[1]) \/ ~StringIsBigInt(r.passwordField[1])
           THEN Respond500(r, "false", <<"SyntaxError">>)
           ELSE CallHash([r EXCEPT !.usernameHash = <<hashWithPoseidon(PendingHash(r))>>],
                         <<StringToBigInt(r.usernameField[1]),
                           StringToBigInt(r.passwordField[1])>>,
                         "awaitCredentialHash")]
      /\ UNCHANGED encVars

\* a plausible slip: the generated value is used although a nonce was supplied
ChooseNonceAlwaysFresh(nonce, rnd) == Num(rnd, 0)

\* server.ts:215  nonce || Math.floor(Math.random() * 1000000)
ChooseNonce(nonce, rnd) == IF Truthy(nonce) THEN nonce ELSE Num(rnd, 0)

\* server.ts:209-219  credentialHash resolves; up to the await of line 216
AuthCredentialHash(id) ==
  LET r == req[id]
      b == RequestBody(req, id)
  IN  /\ r.pc = "awaitCredentialHash" /\ ~PoseidonThrows(PendingHash(r))
      /\ \E rnd \in 0..MaxRandom :
           LET credentialHash == hashWithPoseidon(PendingHash(r))
               nonceValue == ChooseNonce(b.nonce, rnd)
               r2 == [r EXCEPT !.credentialHash = <<credentialHash>>,
                               !.nonceValue = <<nonceValue>>]
           IN  req' = [req EXCEPT ![id] =
                 IF ~StringIsBigInt(credentialHash)
                 THEN Respond500(r2, "false", <<"SyntaxError">>)
                 ELSE IF BigIntThrows(nonceValue)
                 THEN Respond500(r2, "false", <<BigIntError(nonceValue)>>)
                 ELSE CallHash(r2, <<StringToBigInt(credentialHash),
                                     JsToBigInt(nonceValue)>>,
                               "awaitResultHash")]
      /\ UNCHANGED encVars

\* server.ts:216-229  resultHash resolves; up to the await of line 222
AuthResultHash(id) ==
  LET r == req[id]
  IN  /\ r.pc = "awaitResultHash" /\ ~PoseidonThrows(PendingHash(r))
      /\ LET resultHash == hashWithPoseidon(PendingHash(r))
         IN  req' = [req EXCEPT ![id] =
               CallProver([r EXCEPT !.resultHash = <<resultHash>>],
                          Witness(Str(r.usernameField[1]), Str(r.passwordField[1]),
                                  Str(r.usernameHash[1]), Str(r.credentialHash[1]),
                                  Str(JsToString(r.nonceValue[1])), Str(resultHash)))]
      /\ UNCHANGED encVars

\* server.ts:242-248  a hash call of the derivation throws
AuthHashFailure(id) ==
  LET r == req[id]
  IN  /\ r.pc \in {"awaitUsernameHash", "awaitCredentialHash", "awaitResultHash"}
      /\ \E msg \in HashErrors :
           req' = [req EXCEPT ![id] = Respond500(r, "false", <<msg>>)]
      /\ UNCHANGED encVars

\* server.ts:80-96, 231-241  the prover returns
AuthProofResponse(id) ==
  LET r == req[id]
  IN  /\ r.pc = "awaitProver" /\ r.ep = "auth"
      /\ \E raw \in RawProofs :
           req' = [req EXCEPT ![id].pc = "done", ![id].raw = <<raw>>,
                              ![id].resp = @ \o <<[BlankResponse(200, "auth") EXCEPT
                                 !.success = "true",
                                 !.usernameHash = r.usernameHash,
                                 !.credentialHash = r.credentialHash,
                                 !.resultHash = r.resultHash,
                                 !.nonce = r.nonceValue,
                                 !.proof = <<NormalizeProof(raw)>>,
                                 !.publicSignals = <<raw.publicSignals>>]>>]
      /\ UNCHANGED encVars

\* server.ts:97-100, 242-248  the prover throws
AuthProofFailure(id) ==
  LET r == req[id]
  IN  /\ r.pc = "awaitProver" /\ r.ep = "auth"
      /\ \E msg \in ProverErrors :
           req' = [req EXCEPT ![id] =
             Respond500([r EXCEPT !.proverError = <<msg>>], "false", ProofError(msg))]
      /\ UNCHANGED encVars

(***************************************************************************)
(* The service                                                             *)
(***************************************************************************)
EncIdle ==
  /\ encIn = <<>> /\ encSuf = <<>>
  /\ encOut = <<>> /\ encCat = <<>> /\ encRep = <<>>

Init ==
  /\ req = [id \in Ids |-> IdleRequest]
  /\ EncIdle

Step(id) ==
  \/ Receive(id)
  \/ Health(id)
  \/ HashRequest(id)
  \/ HashResponse(id)
  \/ HashFailure(id)
  \/ StringToField(id)
  \/ ProofRequest(id)
  \/ ProofResponse(id)
  \/ ProofFailure(id)
  \/ AuthRequest(id)
  \/ AuthUsernameHash(id)
  \/ AuthCredentialHash(id)
  \/ AuthResultHash(id)
  \/ AuthHashFailure(id)
  \/ AuthProofResponse(id)
  \/ AuthProofFailure(id)

Next == \E id \in Ids : Step(id)

Spec == Init /\ [][Next]_vars

\* the synchronous part of a handler, from the dispatch of the request to its
\* response or its first await
Run(id) ==
  \/ Health(id)
  \/ HashRequest(id)
  \/ StringToField(id)
  \/ ProofRequest(id)
  \/ AuthRequest(id)

\* an awaited promise (a hash, the prover) settles and the handler resumes up
\* to its response or its next await
Settle(id) ==
  \/ HashFailure(id)
  \/ ProofFailure(id)
  \/ AuthHashFailure(id)
  \/ AuthProofFailure(id)
  \/ HashResponse(id)
  \/ ProofResponse(id)
  \/ AuthUsernameHash(id)
  \/ AuthCredentialHash(id)
  \/ AuthResultHash(id)
  \/ AuthProofResponse(id)

\* node runs the handler of a dispatched request: weak fairness of Run(id),
\* with ENABLED <<Run(id)>>_vars written as the state predicate it is equal
\* to, the request being dispatched and not yet handled
RunFairness(id) == []<>(req[id].pc # "received") \/ []<><<Run(id)>>_vars

\* the handler of every dispatched request runs, and every promise a handler
\* awaits settles (buildPoseidon, poseidon and groth16.fullProve return or throw)
FairSpec == Spec /\ \A id \in Ids : RunFairness(id) /\ WF_vars(Settle(id))

(***************************************************************************)
(* The encoder on its own: stringToFieldElement applied to s, to s again   *)
(* and to s + t                                                            *)
(***************************************************************************)
EncAlphabet == {97, 8364, 55357, 56832}   \* a, the euro sign, a high and a low surrogate

RECURSIVE Strings(_)
\* the strings over EncAlphabet of length at most n
Strings(n) ==
  IF n = 0 THEN {<<>>}
  ELSE Strings(n - 1) \cup
       {<<c>> \o t : c \in EncAlphabet, t \in {u \in Strings(n - 1) : Len(u) = n - 1}}

\* paddings that put the tail at and around byte MaxBytes
PadLens == {0} \cup {MaxBytes - k : k \in {0, 1, 3, 4}}

EncInputs ==
  {StrTestuser} \cup {Repeat(97, n) \o t : n \in PadLens, t \in Strings(MaxTail)}

EncSuffixes == Strings(1)

EncInit ==
  /\ req = [id \in Ids |-> IdleRequest]
  /\ encIn \in EncInputs
  /\ encSuf \in EncSuffixes
  /\ encOut = <<>> /\ encCat = <<>> /\ encRep = <<>>

EncCall ==
  /\ encOut = <<>>
  /\ encOut' = <<stringToFieldElement(encIn)>>
  /\ UNCHANGED <<req, encIn, encSuf, encCat, encRep>>

EncCallAgain ==
  /\ encOut # <<>> /\ encRep = <<>>
  /\ encRep' = <<stringToFieldElement(encIn)>>
  /\ UNCHANGED <<req, encIn, encSuf, encOut, encCat>>

EncCallCat ==
  /\ encCat = <<>>
  /\ encCat' = <<stringToFieldElement(encIn \o encSuf)>>
  /\ UNCHANGED <<req, encIn, encSuf, encOut, encRep>>

EncNext == EncCall \/ EncCallAgain \/ EncCallCat

EncSpec == EncInit /\ [][EncNext]_vars

(***************************************************************************)
(* C1: the field encoder                                                   *)
(***************************************************************************)
\* the decimal string d denotes, without leading zeros, the integer whose
\* little-endian base-256 digits are the first MaxBytes of bytes, that is
\* the sum of bytes[i] * 256^i for i in [0, min(len, 31))
IsDecimalOfSum(d, bytes) ==
  /\ d # <<>> /\ IsDecimal(d)
  /\ (d[1] = 48 => d = <<48>>)
  /\ ParseDec(d) = Norm(SubSeq(bytes, 1, Min(Len(bytes), MaxBytes)))

\* the README's vector: 8243121641273648500
TestuserField ==
  <<56, 50, 52, 51, 49, 50, 49, 54, 52, 49, 50, 55, 51, 54, 52, 56, 53, 48, 48>>

\* every result is the decimal string of the sum, a repeated call agrees, and
\* "testuser" encodes to the documented value
EncodesSum ==
  /\ encOut # <<>> => IsDecimalOfSum(encOut[1], TextEncode(encIn))
  /\ encCat # <<>> => IsDecimalOfSum(encCat[1], TextEncode(encIn \o encSuf))
  /\ encRep # <<>> => encRep = encOut
  /\ (encOut # <<>> /\ encIn = StrTestuser) => encOut[1] = TestuserField

\* s + t joins an unpaired high surrogate ending s to a low surrogate
\* starting t into one code point
JoinsSurrogates(s, t) ==
  /\ s # <<>> /\ t # <<>>
  /\ IsHigh(s[Len(s)]) /\ IsLow(t[1])

\* C1 as stated: the sum formula, determinism, the documented vector, and for
\* every s of 31 bytes and every suffix t, encode(s + t) = encode(s)
C1_AsStated ==
  /\ EncodesSum
  /\ (encOut # <<>> /\ encCat # <<>> /\ Len(TextEncode(encIn)) = MaxBytes)
       => encCat = encOut

\* C1 as amended: the same, the truncation equality for every s of 31 bytes
\* and every suffix t whose first code unit does not complete a surrogate
\* pair with the last code unit of s
C1_EncodeSumAndTruncation ==
  /\ EncodesSum
  /\ (encOut # <<>> /\ encCat # <<>> /\ Len(TextEncode(encIn)) = MaxBytes
         /\ ~JoinsSurrogates(encIn, encSuf))
       => encCat = encOut

\* a string of 31 bytes with a multi-byte character at the boundary was
\* encoded twice, and once more with a non-empty suffix appended
C1_Witness ==
  /\ encOut # <<>> /\ encCat # <<>> /\ encRep # <<>>
  /\ Len(TextEncode(encIn)) = MaxBytes /\ Len(encIn) < MaxBytes
  /\ encSuf # <<>> /\ ~JoinsSurrogates(encIn, encSuf)
  /\ encCat = encOut

(***************************************************************************)
(* C2: order sensitivity of the pattern encoding                           *)
(***************************************************************************)
\* the rearrangements of the sequence a
PermsOf(a) ==
  LET n == Len(a)
      bij == {f \in [1..n -> 1..n] : \A i, j \in 1..n : f[i] = f[j] => i = j}
  IN  {[i \in 1..n |-> a[f[i]]] : f \in bij}

\* C2: the passwordField a request derived from its pattern differs from the
\* passwordField of every other ordering of the same elements
C2_OrderSensitive ==
  \A id \in Ids :
    LET r == req[id] IN
    (r.ep = "auth" /\ r.passwordField # <<>>) =>
      \A q \in PermsOf(r.body.pattern.a) :
        q # r.body.pattern.a =>
          stringToFieldElement(Join(q, <<>>)) # r.passwordField[1]

(***************************************************************************)
(* C3, C5: the witness handed to the prover                                *)
(***************************************************************************)
\* a string that is a non-negative integer literal
IsNatString(v) == v.t = "string" /\ v.s # <<>> /\ IsDecimal(v.s)

WellFormed(w) ==
  /\ IsNatString(w.username) /\ IsNatString(w.password)
  /\ IsNatString(w.username_hash) /\ IsNatString(w.credential_hash)
  /\ IsNatString(w.nonce) /\ IsNatString(w.result_hash)

\* the hash chain over the integer values of the witness's own fields
ChainConsistent(w) ==
  /\ WellFormed(w)
  /\ w.username_hash.s = hashWithPoseidon(<<ParseDec(w.username.s)>>)
  /\ w.credential_hash.s =
       hashWithPoseidon(<<ParseDec(w.username.s), ParseDec(w.password.s)>>)
  /\ w.result_hash.s =
       hashWithPoseidon(<<ParseDec(w.credential_hash.s), ParseDec(w.nonce.s)>>)

\* C3: every witness /api/auth/generate-proof passes to the prover is
\* consistent with the hash chain
C3_WitnessConsistent ==
  \A id \in Ids :
    (req[id].ep = "auth" /\ req[id].witness # <<>>) =>
      ChainConsistent(req[id].witness[1])

\* C5: the prover is only ever invoked with six fields that are non-negative
\* integer strings
C5_WitnessWellFormed ==
  \A id \in Ids :
    \A i \in 1..Len(req[id].witness) : WellFormed(req[id].witness[i])

(***************************************************************************)
(* C4: the nonce of an attempt                                             *)
(***************************************************************************)
\* the caller supplied a nonce, and it is not zero
PresentNonZero(v) == v.t # "undefined" /\ ~(v.t = "number" /\ v.n = 0)

\* a value Math.floor(Math.random() * 1000000) produces
IsGenerated(v) == v.t = "number" /\ v.e = 0 /\ v.n \in 0..MaxRandom

\* C4: the nonce is the caller's when present and non-zero and a generated
\* one otherwise, choosing it raises no error, and that one value is hashed
\* into resultHash, put in the witness and returned as data.nonce
C4_NonceChoice ==
  \A id \in Ids :
    LET r == req[id] IN
    (r.ep = "auth" /\ r.credentialHash # <<>>) =>
      /\ r.nonceValue # <<>>
      /\ IF PresentNonZero(r.body.nonce) THEN r.nonceValue[1] = r.body.nonce
         ELSE /\ IsGenerated(r.nonceValue[1])
              /\ Len(r.hashArgs) = 3
              /\ r.pc = "done" =>
                   (r.resp[1].status = 200 \/ r.resp[1].error \in
                      {<<m>> : m \in HashErrors} \cup {ProofError(m) : m \in ProverErrors})
      /\ Len(r.hashArgs) = 3 =>
           /\ r.hashArgs[3][1] = StringToBigInt(r.credentialHash[1])
           /\ r.hashArgs[3][2] = JsToBigInt(r.nonceValue[1])
      /\ r.resultHash # <<>> => r.resultHash[1] = hashWithPoseidon(r.hashArgs[3])
      /\ r.witness # <<>> =>
           /\ r.witness[1].nonce = Str(JsToString(r.nonceValue[1]))
           /\ r.witness[1].result_hash = Str(r.resultHash[1])
      /\ (r.pc = "done" /\ r.resp[1].status = 200) =>
           /\ r.resp[1].nonce = r.nonceValue
           /\ r.resp[1].resultHash = r.resultHash

\* one attempt answered with a generated nonce although the caller sent
\* zero, while another is in flight with the caller's own nonce in its witness
C4_Witness ==
  \E i, j \in Ids :
    /\ req[i].ep = "auth" /\ req[i].pc = "done" /\ req[i].resp[1].status = 200
    /\ req[i].body.nonce = Num(0, 0) /\ IsGenerated(req[i].resp[1].nonce[1])
    /\ req[j].ep = "auth" /\ req[j].witness # <<>>
    /\ req[j].body.nonce = Num(7, 0) /\ req[j].witness[1].nonce = Str(<<55>>)

(***************************************************************************)
(* C6: the proof artifact                                                  *)
(***************************************************************************)
\* C6: b has each row of pi_b reversed, a and c carry the first two
\* coordinates of pi_a and pi_c in order, publicSignals is passed through
C6_CoordinateSwap ==
  \A id \in Ids :
    LET r == req[id] IN
    r.raw # <<>> =>
      /\ Len(r.resp) = 1 /\ r.resp[1].status = 200
      /\ r.resp[1].proof # <<>>
      /\ LET p == r.resp[1].proof[1]
             w == r.raw[1]
         IN  /\ \A row \in {1, 2} : p.b[row] = <<w.pi_b[row][2], w.pi_b[row][1]>>
             /\ Len(p.b) = 2
             /\ p.a = <<w.pi_a[1], w.pi_a[2]>>
             /\ p.c = <<w.pi_c[1], w.pi_c[2]>>
             /\ r.resp[1].publicSignals = <<w.publicSignals>>

\* a proof whose rows of pi_b hold two different coordinates was returned
C6_Witness ==
  \E id \in Ids :
    /\ req[id].raw # <<>>
    /\ req[id].raw[1].pi_b[1][1] # req[id].raw[1].pi_b[1][2]
    /\ req[id].raw[1].pi_b[2][1] # req[id].raw[1].pi_b[2][2]
    /\ req[id].resp[1].proof # <<>>

(***************************************************************************)
(* C7: a failing prover                                                    *)
(***************************************************************************)
\* C7: the prover is called at most once per request, and when it throws the
\* request ends with 500 {success: false, error} that carries the prover's
\* message and holds no proof and no publicSignals
C7_ProverFailure ==
  \A id \in Ids :
    LET r == req[id] IN
    /\ Len(r.witness) <= 1
    /\ r.proverError # <<>> =>
         /\ r.pc = "done" /\ Len(r.resp) = 1
         /\ r.resp[1].status = 500 /\ r.resp[1].success = "false"
         /\ \E i \in 1..Len(r.resp[1].error) : r.resp[1].error[i] = r.proverError[1]
         /\ r.resp[1].proof = <<>> /\ r.resp[1].publicSignals = <<>>

\* the prover threw for a raw witness and for a derived one
C7_Witness ==
  \E i, j \in Ids :
    /\ req[i].ep = "proof" /\ req[i].proverError # <<>>
    /\ req[j].ep = "auth" /\ req[j].proverError # <<>>

(***************************************************************************)
(* C8: endpoint validation                                                 *)
(***************************************************************************)
\* the member is not in the body
Absent(v) == v.t = "undefined"

\* the member is not in the body, or is the empty string or zero
AbsentOrEmpty(v) ==
  \/ v.t = "undefined"
  \/ v.t = "string" /\ v.s = <<>>
  \/ v.t = "number" /\ v.n = 0

\* the request fails its endpoint's validation, M telling a missing member
Invalid(r, M(_)) ==
  LET b == r.body IN
  CASE r.ep = "hash" -> M(b.inputs) \/ b.inputs.t # "array"
    [] r.ep = "field" -> M(b.value)
    [] r.ep = "proof" ->
         \/ M(b.username) \/ M(b.password) \/ M(b.username_hash)
         \/ M(b.credential_hash) \/ M(b.nonce) \/ M(b.result_hash)
    [] r.ep = "auth" -> M(b.username) \/ M(b.pattern) \/ b.pattern.t # "array"
    [] OTHER -> FALSE

\* once its handler has run, an invalid request has exactly a 400 response
\* with an error and no hash or prover call, and a valid one has no 400
Validates(M(_)) ==
  \A id \in Ids :
    LET r == req[id] IN
    r.pc \notin {"idle", "received"} =>
      IF Invalid(r, M)
      THEN /\ r.pc = "done" /\ Len(r.resp) = 1
           /\ r.resp[1].status = 400 /\ r.resp[1].error # <<>>
           /\ r.hashArgs = <<>> /\ r.witness = <<>>
      ELSE \A i \in 1..Len(r.resp) : r.resp[i].status # 400

\* C8 as stated: a member is missing when the body does not hold it
C8_AsStated == Validates(Absent)

\* C8 as amended: a member that is the empty string or zero counts as missing
C8_Validation == Validates(AbsentOrEmpty)

\* a request with an empty-string member was rejected, one whose inputs is
\* no array was rejected, and a complete one is past its validation
C8_Witness ==
  /\ \E id \in Ids :
       /\ req[id].ep = "field" /\ req[id].body.value = Str(<<>>)
       /\ req[id].pc = "done" /\ req[id].resp[1].status = 400
  /\ \E id \in Ids :
       /\ req[id].ep \in {"hash", "auth"} /\ req[id].pc = "done"
       /\ req[id].resp[1].status # 400

(***************************************************************************)
(* C9: every request is answered                                           *)
(***************************************************************************)
\* a request has at most one response, and exactly one once its handler ended
OneResponse ==
  \A id \in Ids :
    /\ Len(req[id].resp) <= 1
    /\ req[id].pc = "done" <=> Len(req[id].resp) = 1

\* C9: every request that arrived is eventually answered, exactly once,
\* whatever its handler's conversions, hash calls and prover call raised, and
\* a slot no request has used yet accepts one in every state, also after
\* other requests failed
C9_EveryRequestAnswered ==
  /\ []OneResponse
  /\ \A id \in Ids : (req[id].pc # "idle") ~> (Len(req[id].resp) = 1)
  /\ [](\A id \in Ids : req[id].pc = "idle" => ENABLED Receive(id))

\* one request was answered 500 after an error, another one 200
C9_Witness ==
  \E i, j \in Ids :
    /\ req[i].pc = "done" /\ req[i].resp[1].status = 500
    /\ req[j].pc = "done" /\ req[j].resp[1].status = 200 /\ req[j].ep # "health"

(***************************************************************************)
(* C10: requests are independent                                           *)
(***************************************************************************)
\* what /api/auth/generate-proof derives from a body and a value of
\* Math.random alone; resultHash is absent when BigInt(nonce) throws
Derivation ==
  [b \in AuthBodies, rnd \in 0..MaxRandom |->
    LET uf == stringToFieldElement(JsToString(b.username))
        pf == stringToFieldElement(Join(b.pattern.a, <<>>))
        uh == hashWithPoseidon(<<StringToBigInt(uf)>>)
        ch == hashWithPoseidon(<<StringToBigInt(uf), StringToBigInt(pf)>>)
        nv == IF Truthy(b.nonce) THEN b.nonce ELSE Num(rnd, 0)
        rh == IF BigIntThrows(nv) THEN <<>>
              ELSE <<hashWithPoseidon(<<StringToBigInt(ch), JsToBigInt(nv)>>)>>
    IN  [usernameField |-> <<uf>>, passwordField |-> <<pf>>, usernameHash |-> <<uh>>,
         credentialHash |-> <<ch>>, nonceValue |-> <<nv>>, resultHash |-> rh]]

\* x is <<>> or the expected value
Unset(x, expected) == x = <<>> \/ x = expected

\* the locals, the witness and the response of r are those of the derivation d
\* and of r's own prover outcome
OwnOutcome(r, d) ==
  /\ Unset(r.usernameField, d.usernameField)
  /\ Unset(r.passwordField, d.passwordField)
  /\ Unset(r.usernameHash, d.usernameHash)
  /\ Unset(r.credentialHash, d.credentialHash)
  /\ Unset(r.nonceValue, d.nonceValue)
  /\ Unset(r.resultHash, d.resultHash)
  /\ r.witness # <<>> =>
       r.witness = <<Witness(Str(d.usernameField[1]), Str(d.passwordField[1]),
                             Str(d.usernameHash[1]), Str(d.credentialHash[1]),
                             Str(JsToString(d.nonceValue[1])), Str(d.resultHash[1]))>>
  /\ (r.pc = "done" /\ r.resp[1].status = 200) =>
       /\ r.raw # <<>>
       /\ r.resp = <<[BlankResponse(200, "auth") EXCEPT
                        !.success = "true",
                        !.usernameHash = d.usernameHash,
                        !.credentialHash = d.credentialHash,
                        !.resultHash = d.resultHash,
                        !.nonce = d.nonceValue,
                        !.proof = <<NormalizeProof(r.raw[1])>>,
                        !.publicSignals = <<r.raw[1].publicSignals>>]>>
  /\ (r.pc = "done" /\ r.resp[1].status = 500 /\ r.proverError # <<>>) =>
       r.resp[1].error = ProofError(r.proverError[1])

\* C10: whatever else is in flight, the hashes, the nonce, the witness and
\* the response of an /api/auth/generate-proof request are those derived
\* from its own body and its own nonce
C10_Independent ==
  \A id \in Ids :
    req[id].ep = "auth" =>
      \E rnd \in 0..MaxRandom : OwnOutcome(req[id], Derivation[req[id].body, rnd])

\* two attempts with different bodies are in flight at once, one awaiting a
\* hash and the other the prover
C10_Witness ==
  \E i, j \in Ids :
    /\ req[i].ep = "auth" /\ req[i].pc = "awaitProver"
    /\ req[j].ep = "auth" /\ req[j].pc = "awaitResultHash"
    /\ req[i].body # req[j].body

====
